---------------------------- MODULE Spec2Model ----------------------------
(***************************************************************************)
(* Model of V_ChangeDefaultFieldsOrder.py, the KiCad action plugin that    *)
(* edits drawing.field_names of eeschema.json.                             *)
(*                                                                         *)
(* Text is modelled as a sequence of one-character strings, so that the    *)
(* regular expression FIELD_RE, str.replace and str.strip are computed     *)
(* character by character, as Python computes them.                        *)
(*                                                                         *)
(* Three specifications share the variables:                               *)
(*   SpecEscape  _escape followed by _unescape on a name                   *)
(*   SpecCodec   build_field_names_sexpr and parse_field_names_sexpr       *)
(*   Spec        one run of ChangeDefaultFieldsOrder_Drawing.Run: the      *)
(*               OrderDialog session and the write-back that follows it    *)
(***************************************************************************)
EXTENDS Integers, Sequences, FiniteSets

VARIABLES
    items,        \* OrderDialog.items: the sequence of FieldItem (name, suffix)
    sel,          \* OrderDialog.lb selection, 0-based; NOT_FOUND when none
    saved,        \* OrderDialog.saved
    pc,           \* where the run is
    field_names,  \* the text of drawing.field_names (on disk / being parsed)
    cfg_intact,   \* FALSE once a failed write has left eeschema.json truncated
    writes,       \* number of successful save_drawing_field_names calls
    prompts,      \* number of "Restart KiCad" prompts shown
    kicad_closed, \* _close_kicad_safely has been called
    last,         \* the last handler that ran, its arguments and the items before it
    str_in,       \* SpecEscape: the name given to _escape
    str_esc,      \* SpecEscape: _escape(str_in)
    str_out       \* SpecEscape: _unescape(str_esc)

vars == <<items, sel, saved, pc, field_names, cfg_intact, writes, prompts,
          kicad_closed, last, str_in, str_esc, str_out>>

-----------------------------------------------------------------------------
(* Bounds of the model *)

MaxLen == 4       \* SpecEscape: longest name given to _escape
MaxRecs == 2      \* SpecCodec: longest sequence given to build_field_names_sexpr
MaxImport == 2    \* Spec: longest "fields" array of an imported JSON file

-----------------------------------------------------------------------------
(* Characters and text *)

QUOTE == "\""
BSLASH == "\\"
LPAREN == "("
RPAREN == ")"

\* The characters Python's str.strip() and the regex class \s treat as white
\* space, as far as the model's alphabet has them.
Whitespace == {" ", "\t", "\n", "\r", "\f"}

SeqsUpTo(S, n) == UNION {[1..k -> S] : k \in 0..n}

\* s[i..] and s[..i], empty when out of range
From(s, i) == IF i > Len(s) THEN <<>> ELSE SubSeq(s, i, Len(s))
Upto(s, i) == IF i < 1 THEN <<>> ELSE SubSeq(s, 1, i)

\* the text t has the literal lit at position i (1-based)
HasAt(t, i, lit) ==
    /\ i >= 1
    /\ i + Len(lit) - 1 <= Len(t)
    /\ \A k \in 1..Len(lit) : t[i + k - 1] = lit[k]

\* str.replace(old, new): every non-overlapping occurrence, left to right
RECURSIVE Replace(_, _, _)
Replace(s, old, new) ==
    IF Len(s) < Len(old) THEN s
    ELSE IF HasAt(s, 1, old) THEN new \o Replace(From(s, Len(old) + 1), old, new)
    ELSE <<s[1]>> \o Replace(Tail(s), old, new)

\* str.strip()
RECURSIVE LStrip(_)
LStrip(s) == IF s # <<>> /\ s[1] \in Whitespace THEN LStrip(Tail(s)) ELSE s
RECURSIVE RStrip(_)
RStrip(s) ==
    IF s # <<>> /\ s[Len(s)] \in Whitespace THEN RStrip(Upto(s, Len(s) - 1)) ELSE s
Strip(s) == RStrip(LStrip(s))

-----------------------------------------------------------------------------
(* S-expression helpers *)

\* def _escape(s): s.replace('\\', r'\\').replace('"', r'\"')
_escape_quotes_first(s) ==
    Replace(Replace(s, <<QUOTE>>, <<BSLASH, QUOTE>>), <<BSLASH>>, <<BSLASH, BSLASH>>)
_escape(s) ==
    Replace(Replace(s, <<BSLASH>>, <<BSLASH, BSLASH>>), <<QUOTE>>, <<BSLASH, QUOTE>>)

\* def _unescape(s): s.replace(r'\"', '"').replace(r'\\', '\\')
_unescape(s) ==
    Replace(Replace(s, <<BSLASH, QUOTE>>, <<QUOTE>>), <<BSLASH, BSLASH>>, <<BSLASH>>)

\* class FieldItem: suffix defaults to ""
FieldItem(name, suffix) == [name |-> name, suffix |-> suffix]

KwField == <<"(", "f", "i", "e", "l", "d">>
KwName == <<"(", "n", "a", "m", "e">>
KwTemplate == <<"(", "t", "e", "m", "p", "l", "a", "t", "e",
                "f", "i", "e", "l", "d", "s">>

\* FieldItem.with_suffix_inside: the tail is stripped and, if anything is left,
\* put after exactly one space; the name is escaped.
with_suffix_inside_unescaped(it) ==
    LET suf == Strip(it.suffix)
    IN  KwField \o <<" ">> \o KwName \o <<" ", QUOTE>> \o it.name
          \o <<QUOTE, RPAREN>>
          \o (IF suf # <<>> THEN <<" ">> \o suf ELSE <<>>) \o <<RPAREN>>
with_suffix_inside(it) ==
    LET suf == Strip(it.suffix)
    IN  KwField \o <<" ">> \o KwName \o <<" ", QUOTE>> \o _escape(it.name)
          \o <<QUOTE, RPAREN>>
          \o (IF suf # <<>> THEN <<" ">> \o suf ELSE <<>>) \o <<RPAREN>>

\* "".join(it.with_suffix_inside() for it in items)
RECURSIVE JoinFields(_)
JoinFields(its) ==
    IF its = <<>> THEN <<>> ELSE with_suffix_inside(Head(its)) \o JoinFields(Tail(its))

\* def build_field_names_sexpr(items)
build_field_names_sexpr(its) == KwTemplate \o JoinFields(its) \o <<RPAREN>>

\* FIELD_RE (re.DOTALL), piece by piece:
\*   "(field"  \s+  "(name"  \s+  a double quote
\*   group 1: any number of tokens, each a character other than a quote or a
\*            backslash, or a backslash and the character after it
\*   a double quote  ")"  \s*
\*   group 2: any number of characters other than ")"
\*   ")"
\* matched the way Python's backtracking matcher does.  The pieces are greedy;
\* where a shorter repetition could not make the rest match, the greedy length
\* is the only one tried here.

\* \s* from position i: the position after the longest run of white space
RECURSIVE SkipSpace(_, _)
SkipSpace(t, i) ==
    IF i <= Len(t) /\ t[i] \in Whitespace THEN SkipSpace(t, i + 1) ELSE i

\* Group 1 and the quote after it: the position of the closing quote, 0 when
\* there is none.  A backslash takes the next character with it, whatever it
\* is (DOTALL); a backslash that is the last character matches neither
\* alternative.  Every shorter repetition stops before a character that is
\* not a quote, so only the first quote at a token boundary can close it.
RECURSIVE NameEnd(_, _)
NameEnd(t, i) ==
    IF i > Len(t) THEN 0
    ELSE IF t[i] = QUOTE THEN i
    ELSE IF t[i] = BSLASH THEN (IF i + 1 <= Len(t) THEN NameEnd(t, i + 2) ELSE 0)
    ELSE NameEnd(t, i + 1)

\* Group 2 and the ")" after it: the position of the first ")" at or after i, else 0
RECURSIVE CloseAt(_, _)
CloseAt(t, i) ==
    IF i > Len(t) THEN 0
    ELSE IF t[i] = RPAREN THEN i
    ELSE CloseAt(t, i + 1)

NoMatch == [ok |-> FALSE, g1 |-> <<>>, g2 |-> <<>>, end |-> 0]

\* one attempt of FIELD_RE at position i: the groups and the position after
\* the match
MatchAt(t, i) ==
    IF ~HasAt(t, i, KwField) THEN NoMatch
    ELSE LET a == i + Len(KwField)
             b == SkipSpace(t, a)
         IN  IF b = a \/ ~HasAt(t, b, KwName) THEN NoMatch
             ELSE LET c == b + Len(KwName)
                      d == SkipSpace(t, c)
                  IN  IF d = c \/ ~HasAt(t, d, <<QUOTE>>) THEN NoMatch
                      ELSE LET q == NameEnd(t, d + 1)
                           IN  IF q = 0 \/ ~HasAt(t, q + 1, <<RPAREN>>) THEN NoMatch
                               ELSE LET f == SkipSpace(t, q + 2)
                                        z == CloseAt(t, f)
                                    IN  IF z = 0 THEN NoMatch
                                        ELSE [ok  |-> TRUE,
                                              g1  |-> SubSeq(t, d + 1, q - 1),
                                              g2  |-> SubSeq(t, f, z - 1),
                                              end |-> z + 1]

\* FIELD_RE.finditer(sexpr) from position i, each match turned into a
\* FieldItem as parse_field_names_sexpr does
RECURSIVE FindIter(_, _)
FindIter(t, i) ==
    IF i > Len(t) THEN <<>>
    ELSE LET m == MatchAt(t, i)
         IN  IF m.ok
             THEN <<FieldItem(_unescape(m.g1), m.g2)>> \o FindIter(t, m.end)
             ELSE FindIter(t, i + 1)

\* def parse_field_names_sexpr(sexpr)
parse_field_names_sexpr(sexpr) == FindIter(sexpr, 1)

-----------------------------------------------------------------------------
(* Values shared by the three specifications *)

\* wx.NOT_FOUND
NOT_FOUND == -1

\* last, before any handler has run
NoOp == [op |-> "none", before |-> <<>>, value |-> <<>>, names |-> <<>>,
         idx |-> NOT_FOUND, ok |-> TRUE]

Op(op, before, value, names, idx, ok) ==
    [op |-> op, before |-> before, value |-> value, names |-> names,
     idx |-> idx, ok |-> ok]

\* the variables of the dialog session, at rest
DialogIdle ==
    /\ sel = NOT_FOUND
    /\ saved = FALSE
    /\ cfg_intact = TRUE
    /\ writes = 0
    /\ prompts = 0
    /\ kicad_closed = FALSE

EscapeIdle == str_in = <<>> /\ str_esc = <<>> /\ str_out = <<>>

dialog_vars == <<sel, saved, cfg_intact, writes, prompts, kicad_closed>>
escape_vars == <<str_in, str_esc, str_out>>

-----------------------------------------------------------------------------
(* SpecEscape: _escape, then _unescape, on every name over quotes,         *)
(* backslashes and an ordinary character                                   *)

EscapeAlphabet == {QUOTE, BSLASH, "a"}

InitEscape ==
    /\ str_in \in SeqsUpTo(EscapeAlphabet, MaxLen)
    /\ str_esc = <<>>
    /\ str_out = <<>>
    /\ pc = "name"
    /\ items = <<>>
    /\ field_names = <<>>
    /\ last = NoOp
    /\ DialogIdle

Escape ==
    /\ pc = "name"
    /\ str_esc' = _escape(str_in)
    /\ pc' = "escaped"
    /\ UNCHANGED <<str_in, str_out, items, field_names, last, dialog_vars>>

Unescape ==
    /\ pc = "escaped"
    /\ str_out' = _unescape(str_esc)
    /\ pc' = "unescaped"
    /\ UNCHANGED <<str_in, str_esc, items, field_names, last, dialog_vars>>

NextEscape == Escape \/ Unescape

SpecEscape == InitEscape /\ [][NextEscape]_vars

-----------------------------------------------------------------------------
(* SpecCodec: build_field_names_sexpr and parse_field_names_sexpr, from a  *)
(* sequence of records or from a text                                      *)

\* names: plain, empty, with a quote, with a backslash, with both, and one
\* that holds the text that ends a name sub-field
CodecNames ==
    { <<"A">>, <<>>, <<BSLASH, QUOTE>>, <<QUOTE, BSLASH, BSLASH>>,
      <<"A", QUOTE, RPAREN, " ">> }

\* tails: none, a flag after a space, two flags with white space around them,
\* one that opens a bracket and a quote, and one that holds a ")"
CodecTails ==
    { <<>>, <<" ", "v">>, <<"\n", "v", " ", " ", "u", "\t">>,
      <<LPAREN, QUOTE>>, <<"v", RPAREN>> }

CodecRecords == {FieldItem(n, t) : n \in CodecNames, t \in CodecTails}

\* one (field ...) record as it may stand in a file: ws1 and ws2 are the white
\* space after "(field" and after "(name", ename the escaped name, rtail the
\* text between the ")" that closes the name and the ")" that closes the record
RawField(ws1, ws2, ename, rtail) ==
    KwField \o ws1 \o KwName \o ws2 \o <<QUOTE>> \o ename \o <<QUOTE, RPAREN>>
      \o rtail \o <<RPAREN>>

MFR == <<"M", "F", "R">>
URL == <<"U", "R", "L">>
visible == <<"v", "i", "s", "i", "b", "l", "e">>
url == <<"u", "r", "l">>

\* (templatefields (field (name "MFR") visible) (field (name "URL") url))
ExampleText ==
    KwTemplate \o <<" ">> \o RawField(<<" ">>, <<" ">>, MFR, <<" ">> \o visible)
      \o <<" ">> \o RawField(<<" ">>, <<" ">>, URL, <<" ">> \o url) \o <<RPAREN>>

\* texts a file may hold: the example; records on lines of their own, one with
\* no tail, one with two flags and trailing white space; the same name twice
\* with different tails; an escaped name and an empty name; no record at all;
\* a record cut short
RawTexts ==
    { ExampleText,
      KwTemplate \o <<"\n", " ">> \o RawField(<<" ">>, <<"\t">>, MFR, <<>>)
        \o <<"\n", " ">>
        \o RawField(<<"\n">>, <<" ", " ">>, URL, <<" ">> \o visible \o <<" ">> \o url \o <<" ">>)
        \o <<RPAREN>>,
      KwTemplate \o RawField(<<" ">>, <<" ">>, <<"A">>, <<" ", "v">>)
        \o RawField(<<" ">>, <<" ">>, <<"A">>, <<" ", "u">>) \o <<RPAREN>>,
      KwTemplate \o RawField(<<" ">>, <<" ">>, <<BSLASH, QUOTE, BSLASH, BSLASH>>, <<"v">>)
        \o RawField(<<" ">>, <<" ">>, <<>>, <<>>) \o <<RPAREN>>,
      KwTemplate \o <<RPAREN>>,
      <<>>,
      KwTemplate \o KwField \o <<" ">> \o KwName \o <<" ", QUOTE, "A", QUOTE>> }

InitCodec ==
    /\ \/ /\ pc = "items"
          /\ items \in SeqsUpTo(CodecRecords, MaxRecs)
          /\ field_names = <<>>
       \/ /\ pc = "text"
          /\ items = <<>>
          /\ field_names \in RawTexts
    /\ last = NoOp
    /\ DialogIdle
    /\ EscapeIdle

\* field_names = build_field_names_sexpr(items)
Build ==
    /\ pc \in {"items", "parsed"}
    /\ field_names' = build_field_names_sexpr(items)
    /\ last' = Op("build", items, <<>>, <<>>, NOT_FOUND, TRUE)
    /\ pc' = "built"
    /\ UNCHANGED <<items, dialog_vars, escape_vars>>

\* items = parse_field_names_sexpr(field_names)
Parse ==
    /\ pc \in {"text", "built"}
    /\ items' = parse_field_names_sexpr(field_names)
    /\ pc' = IF pc = "built" THEN "reparsed" ELSE "parsed"
    /\ UNCHANGED <<field_names, last, dialog_vars, escape_vars>>

NextCodec == Build \/ Parse

SpecCodec == InitCodec /\ [][NextCodec]_vars

-----------------------------------------------------------------------------
(* Spec: ChangeDefaultFieldsOrder_Drawing.Run from the moment OrderDialog   *)
(* is shown: the handlers of the dialog, then write_back and Destroy        *)

\* what eeschema.json may hold in drawing.field_names when the plugin starts
DialogTexts ==
    { ExampleText,
      KwTemplate \o RawField(<<" ">>, <<" ">>, <<"A">>, <<" ", "v">>)
        \o RawField(<<" ">>, <<" ">>, <<"A">>, <<" ", "u">>) \o <<RPAREN>>,
      KwTemplate \o RawField(<<" ">>, <<" ">>, <<"B">>, <<" ", "u", " ">>)
        \o RawField(<<" ">>, <<" ">>, <<>>, <<>>) \o <<RPAREN>>,
      <<>> }

\* what the user may type into the "Add Field" dialog
AddValues == { <<>>, <<" ">>, <<"A">>, <<" ", "A", "\t">>, <<"B">> }

\* an entry of the "fields" array of an imported file: a string, or a value
\* of another JSON type
JsonStr(n) == [isstr |-> TRUE, val |-> n]
JsonOther == [isstr |-> FALSE, val |-> <<>>]
ImportEntries == {JsonStr(n) : n \in { <<>>, <<"A">>, <<"B">>, MFR }} \cup {JsonOther}

\* data.get("fields") of an imported file: a list, or not a list
ImportFiles ==
    {[islist |-> TRUE, fields |-> f] : f \in SeqsUpTo(ImportEntries, MaxImport)}
      \cup {[islist |-> FALSE, fields |-> <<>>]}

\* the file dialog was cancelled: nothing was read
NoFile == [islist |-> FALSE, fields |-> <<>>]

Init ==
    /\ field_names \in DialogTexts
    /\ items = parse_field_names_sexpr(field_names)
    /\ sel = NOT_FOUND
    /\ saved = FALSE
    /\ pc = "dialog"
    /\ cfg_intact = TRUE
    /\ writes = 0
    /\ prompts = 0
    /\ kicad_closed = FALSE
    /\ last = NoOp
    /\ EscapeIdle

\* OrderDialog.refresh(sel): the selection the list box ends with; its rows
\* are the names of its, always
refresh(its, s) == IF 0 <= s /\ s < Len(its) THEN s ELSE NOT_FOUND

Min(a, b) == IF a <= b THEN a ELSE b

\* items[i], items[j] = items[j], items[i], with 0-based i and j
Swap(its, i, j) == [its EXCEPT ![i + 1] = its[j + 1], ![j + 1] = its[i + 1]]

run_vars == <<saved, field_names, cfg_intact, writes, prompts, kicad_closed>>

\* the user clicks a row of the list box
Select ==
    /\ pc = "dialog"
    /\ \E i \in 0..(Len(items) - 1) : sel' = i
    /\ UNCHANGED <<items, pc, last, run_vars, escape_vars>>

\* a handler has returned: the modal loop waits for the next event
EventLoop ==
    /\ pc = "handled"
    /\ pc' = "dialog"
    /\ last' = NoOp
    /\ UNCHANGED <<items, sel, run_vars, escape_vars>>

\* Python's items[-1], items[0] = items[0], items[-1] when the guard i == 0 is
\* missing
_move_up_no_first_guard ==
    /\ pc = "dialog"
    /\ pc' = "handled"
    /\ last' = Op("up", items, <<>>, <<>>, sel, TRUE)
    /\ IF sel = NOT_FOUND \/ Len(items) = 0
       THEN UNCHANGED <<items, sel>>
       ELSE LET j == IF sel = 0 THEN Len(items) - 1 ELSE sel - 1
            IN  /\ items' = Swap(items, j, sel)
                /\ sel' = refresh(items', sel - 1)
    /\ UNCHANGED <<run_vars, escape_vars>>

\* OrderDialog._move_up (on_up, _accel_alt_up)
_move_up ==
    /\ pc = "dialog"
    /\ pc' = "handled"
    /\ last' = Op("up", items, <<>>, <<>>, sel, TRUE)
    /\ IF sel = NOT_FOUND \/ sel = 0
       THEN UNCHANGED <<items, sel>>
       ELSE /\ items' = Swap(items, sel - 1, sel)
            /\ sel' = refresh(items', sel - 1)
    /\ UNCHANGED <<run_vars, escape_vars>>

\* OrderDialog._move_down (on_down, _accel_alt_down)
_move_down ==
    /\ pc = "dialog"
    /\ pc' = "handled"
    /\ last' = Op("down", items, <<>>, <<>>, sel, TRUE)
    /\ IF sel = NOT_FOUND \/ sel >= Len(items) - 1
       THEN UNCHANGED <<items, sel>>
       ELSE /\ items' = Swap(items, sel + 1, sel)
            /\ sel' = refresh(items', sel + 1)
    /\ UNCHANGED <<run_vars, escape_vars>>

\* on_add without the test that the name is new
on_add_no_duplicate_test ==
    /\ pc = "dialog"
    /\ pc' = "handled"
    /\ \E ok \in BOOLEAN : \E value \in (IF ok THEN AddValues ELSE {<<>>}) :
         LET name == Strip(value)
         IN  /\ last' = Op("add", items, value, <<>>, sel, ok)
             /\ IF ok /\ name # <<>>
                THEN /\ items' = Append(items, FieldItem(name, <<>>))
                     /\ sel' = refresh(items', Len(items') - 1)
                ELSE UNCHANGED <<items, sel>>
    /\ UNCHANGED <<run_vars, escape_vars>>

\* OrderDialog.on_add: ok is whether the text entry dialog ended with OK,
\* value what it held
on_add ==
    /\ pc = "dialog"
    /\ pc' = "handled"
    /\ \E ok \in BOOLEAN : \E value \in (IF ok THEN AddValues ELSE {<<>>}) :
         LET name == Strip(value)
         IN  /\ last' = Op("add", items, value, <<>>, sel, ok)
             /\ IF ok /\ name # <<>> /\ \A k \in 1..Len(items) : items[k].name # name
                THEN /\ items' = Append(items, FieldItem(name, <<>>))
                     /\ sel' = refresh(items', Len(items') - 1)
                ELSE UNCHANGED <<items, sel>>
    /\ UNCHANGED <<run_vars, escape_vars>>

\* OrderDialog.on_del
on_del ==
    /\ pc = "dialog"
    /\ pc' = "handled"
    /\ last' = Op("del", items, <<>>, <<>>, sel, TRUE)
    /\ IF sel = NOT_FOUND
       THEN UNCHANGED <<items, sel>>
       ELSE /\ items' = Upto(items, sel) \o From(items, sel + 2)
            /\ sel' = refresh(items', Min(sel, Len(items') - 1))
    /\ UNCHANGED <<run_vars, escape_vars>>

\* suffix_map.get(n, ""): the dictionary built from the items keeps, for a name
\* that several items have, the suffix of the last of them
suffix_map_get(its, n) ==
    LET ks == {k \in 1..Len(its) : its[k].name = n}
    IN  IF ks = {} THEN <<>>
        ELSE its[CHOOSE k \in ks : \A j \in ks : j <= k].suffix

\* the names of the string entries of fields
seen_names(fields) == {fields[k].val : k \in {j \in 1..Len(fields) : fields[j].isstr}}

\* the first loop of on_import with the suffix not looked up
RECURSIVE named_items_no_suffix(_, _, _)
named_items_no_suffix(fields, seen, its) ==
    IF fields = <<>> THEN <<>>
    ELSE LET n == Head(fields)
         IN  IF n.isstr /\ n.val \notin seen
             THEN <<FieldItem(n.val, <<>>)>>
                    \o named_items_no_suffix(Tail(fields), seen \cup {n.val}, its)
             ELSE named_items_no_suffix(Tail(fields), seen, its)

\* the first loop of on_import without the test "n not in seen"
RECURSIVE named_items_no_seen(_, _, _)
named_items_no_seen(fields, seen, its) ==
    IF fields = <<>> THEN <<>>
    ELSE LET n == Head(fields)
         IN  IF n.isstr
             THEN <<FieldItem(n.val, suffix_map_get(its, n.val))>>
                    \o named_items_no_seen(Tail(fields), seen \cup {n.val}, its)
             ELSE named_items_no_seen(Tail(fields), seen, its)

\* the first loop of on_import: one item for each string of fields not seen
\* before, with the suffix the name has in its
RECURSIVE named_items(_, _, _)
named_items(fields, seen, its) ==
    IF fields = <<>> THEN <<>>
    ELSE LET n == Head(fields)
         IN  IF n.isstr /\ n.val \notin seen
             THEN <<FieldItem(n.val, suffix_map_get(its, n.val))>>
                    \o named_items(Tail(fields), seen \cup {n.val}, its)
             ELSE named_items(Tail(fields), seen, its)

\* the second loop of on_import: the items whose name was not seen, in order
unseen_items(its, seen) ==
    LET Unseen(it) == it.name \notin seen
    IN  SelectSeq(its, Unseen)

\* new_items of on_import
new_items(its, fields) ==
    named_items(fields, {}, its) \o unseen_items(its, seen_names(fields))

\* OrderDialog.on_import: ok is whether the file dialog ended with OK, file
\* what json.load read
on_import ==
    /\ pc = "dialog"
    /\ pc' = "handled"
    /\ \E ok \in BOOLEAN : \E file \in (IF ok THEN ImportFiles ELSE {NoFile}) :
         /\ last' = Op("import", items, <<>>, file.fields, sel, ok /\ file.islist)
         /\ IF ok /\ file.islist
            THEN /\ items' = new_items(items, file.fields)
                 /\ sel' = refresh(items', 0)
            ELSE UNCHANGED <<items, sel>>
    /\ UNCHANGED <<run_vars, escape_vars>>

\* save_drawing_field_names.  wrote: the write succeeded; trunc: it failed
\* after open(cfg_path, "w") had emptied the file.  (The dictionary in memory
\* also gets the new text; nothing reads it before the next save replaces it.)
save_drawing_field_names(wrote, trunc) ==
    /\ IF wrote
       THEN /\ field_names' = build_field_names_sexpr(items)
            /\ cfg_intact' = TRUE
            /\ writes' = writes + 1
       ELSE /\ field_names' = field_names
            /\ cfg_intact' = (cfg_intact /\ ~trunc)
            /\ writes' = writes

\* OrderDialog.on_apply (the toolbar button, Ctrl+S): yes is the answer to
\* "Close KiCad now?"
on_apply ==
    /\ pc = "dialog"
    /\ IF ~saved
       THEN \E wrote \in BOOLEAN, trunc \in BOOLEAN, yes \in BOOLEAN :
              /\ save_drawing_field_names(wrote, trunc)
              /\ last' = Op("apply", items, <<>>, <<>>, sel, wrote)
              /\ IF wrote
                 THEN /\ prompts' = prompts + 1
                      /\ kicad_closed' = (kicad_closed \/ yes)
                      /\ saved' = TRUE
                      /\ pc' = "returned_ok"
                 ELSE /\ pc' = "handled"
                      /\ UNCHANGED <<prompts, kicad_closed, saved>>
       ELSE /\ last' = Op("apply", items, <<>>, <<>>, sel, TRUE)
            /\ pc' = "returned_ok"
            /\ UNCHANGED <<field_names, cfg_intact, writes, prompts,
                           kicad_closed, saved>>
    /\ UNCHANGED <<items, sel, escape_vars>>

\* the bottom "Save + Restart" button: the dialog's own wx.ID_OK handling
\* ends the modal loop with wx.ID_OK
on_ok ==
    /\ pc = "dialog"
    /\ pc' = "returned_ok"
    /\ last' = Op("ok", items, <<>>, <<>>, sel, TRUE)
    /\ UNCHANGED <<items, sel, saved, field_names, cfg_intact, writes,
                   prompts, kicad_closed, escape_vars>>

\* either Cancel button: EndModal(wx.ID_CANCEL)
on_cancel ==
    /\ pc = "dialog"
    /\ pc' = "returned_cancel"
    /\ last' = Op("cancel", items, <<>>, <<>>, sel, TRUE)
    /\ UNCHANGED <<items, sel, saved, field_names, cfg_intact, writes,
                   prompts, kicad_closed, escape_vars>>

\* write_back without "if self.saved: return"
write_back_ignoring_saved ==
    \E wrote \in BOOLEAN, trunc \in BOOLEAN :
      /\ save_drawing_field_names(wrote, trunc)
      /\ last' = Op("write_back", items, <<>>, <<>>, sel, wrote)

\* OrderDialog.write_back
write_back ==
    IF saved
    THEN /\ last' = Op("write_back", items, <<>>, <<>>, sel, TRUE)
         /\ UNCHANGED <<field_names, cfg_intact, writes>>
    ELSE \E wrote \in BOOLEAN, trunc \in BOOLEAN :
           /\ save_drawing_field_names(wrote, trunc)
           /\ last' = Op("write_back", items, <<>>, <<>>, sel, wrote)

\* Run, after dlg.ShowModal() returned wx.ID_OK: write_back, then Destroy
Run_ok ==
    /\ pc = "returned_ok"
    /\ write_back
    /\ pc' = "done"
    /\ UNCHANGED <<items, sel, saved, prompts, kicad_closed, escape_vars>>

\* Run, after dlg.ShowModal() returned wx.ID_CANCEL: Destroy
Run_cancel ==
    /\ pc = "returned_cancel"
    /\ pc' = "done"
    /\ UNCHANGED <<items, sel, saved, field_names, cfg_intact, writes,
                   prompts, kicad_closed, last, escape_vars>>

Next ==
    \/ Select
    \/ EventLoop
    \/ _move_up
    \/ _move_down
    \/ on_add
    \/ on_del
    \/ on_import
    \/ on_apply
    \/ on_ok
    \/ on_cancel
    \/ Run_ok
    \/ Run_cancel

Spec == Init /\ [][Next]_vars

-----------------------------------------------------------------------------
(* The claims *)

Names(its) == [k \in 1..Len(its) |-> its[k].name]
Distinct(seq) == \A i, j \in 1..Len(seq) : seq[i] = seq[j] => i = j
HasChar(seq, c) == \E k \in 1..Len(seq) : seq[k] = c
Occurs(lit, t) == \E i \in 1..(Len(t) + 1) : HasAt(t, i, lit)
EditOps == {"up", "down", "add", "del", "import"}

\* same length and, position by position, same name and same trimmed tail
SameFields(a, b) ==
    /\ Len(a) = Len(b)
    /\ \A k \in 1..Len(a) :
         /\ a[k].name = b[k].name
         /\ Strip(a[k].suffix) = Strip(b[k].suffix)

NoCloseParen(its) == \A k \in 1..Len(its) : ~HasChar(its[k].suffix, RPAREN)

\* C1: for every sequence S whose tails hold no ")", parsing the text built
\* from S gives a sequence of the same length with, position by position, the
\* same name and the same trimmed tail.  (last.before is S, whether it was
\* given or was itself parsed from a text.)
C1_RoundTrip ==
    (pc = "reparsed" /\ NoCloseParen(last.before)) => SameFields(items, last.before)

\* two records, a name with a backslash and a quote, a tail with white space
\* around two flags that comes back trimmed
C1_Witness ==
    /\ pc = "reparsed"
    /\ Len(last.before) = 2
    /\ last.before[1].name = <<BSLASH, QUOTE>>
    /\ last.before[2].suffix = <<"\n", "v", " ", " ", "u", "\t">>
    /\ items[2].suffix = <<"v", " ", " ", "u">>
    /\ SameFields(items, last.before)

\* what _escape is said to produce: every backslash doubled, every quote
\* preceded by a backslash, every other character kept
RECURSIVE EscapedCharwise(_)
EscapedCharwise(n) ==
    IF n = <<>> THEN <<>>
    ELSE (IF Head(n) = BSLASH THEN <<BSLASH, BSLASH>>
          ELSE IF Head(n) = QUOTE THEN <<BSLASH, QUOTE>>
          ELSE <<Head(n)>>) \o EscapedCharwise(Tail(n))

\* C2: for every name over quotes, backslashes and ordinary characters,
\* _unescape(_escape(name)) = name, and _escape(name) is the name with each
\* backslash doubled and each quote preceded by a backslash.
C2_EscapeRoundTrip ==
    /\ pc \in {"escaped", "unescaped"} => str_esc = EscapedCharwise(str_in)
    /\ pc = "unescaped" => str_out = str_in

C2_Witness ==
    /\ pc = "unescaped"
    /\ str_in = <<BSLASH, QUOTE, "a", BSLASH>>
    /\ str_esc = <<BSLASH, BSLASH, BSLASH, QUOTE, "a", BSLASH, BSLASH>>
    /\ str_out = str_in

\* C3: parse leaves every tail raw: the tail is exactly the text between the
\* ")" that closes the name sub-field and the record's closing ")", leading
\* white space included, so the example text parses to ("MFR", " visible"),
\* ("URL", " url").
C3_RawTail ==
    pc = "parsed" =>
      /\ \A k \in 1..Len(items) :
           Occurs(<<QUOTE, RPAREN>> \o items[k].suffix \o <<RPAREN>>, field_names)
      /\ field_names = ExampleText =>
           items = <<FieldItem(MFR, <<" ">> \o visible), FieldItem(URL, <<" ">> \o url)>>

\* the import that the claims about reorderByNames speak of: the file dialog
\* ended with OK, "fields" is a list, and every entry of it is a text
Imported ==
    /\ last.op = "import"
    /\ last.ok
    /\ \A k \in 1..Len(last.names) : last.names[k].isstr

ImportedNames == [k \in 1..Len(last.names) |-> last.names[k].val]

\* the positions of names that hold a name for the first time, and the place
\* a first occurrence gets in the result
FirstOccurrences(names) ==
    {k \in 1..Len(names) : \A j \in 1..(k - 1) : names[j] # names[k]}
Rank(names, k) == Cardinality({j \in FirstOccurrences(names) : j <= k})

\* the records of b whose name is not in names, in order
Unnamed(b, names) ==
    LET Absent(it) == \A k \in 1..Len(names) : names[k] # it.name
    IN  SelectSeq(b, Absent)

\* first one record per distinct name, in order of first occurrence; then the
\* records of b not named, in order and unchanged; nothing else
ReorderedShape(b, names, r) ==
    LET n == Cardinality(FirstOccurrences(names))
        rest == Unnamed(b, names)
    IN  /\ Len(r) = n + Len(rest)
        /\ \A k \in FirstOccurrences(names) : r[Rank(names, k)].name = names[k]
        /\ \A i \in 1..Len(rest) : r[n + i] = rest[i]

\* C4, as claimed: each named record carries the tail that name has in the
\* current sequence (empty if it has none), and no record of the current
\* sequence is lost.
C4_ReorderByNames ==
    Imported =>
      LET b == last.before
          names == ImportedNames
      IN  /\ ReorderedShape(b, names, items)
          /\ \A k \in FirstOccurrences(names) :
               /\ \A i \in 1..Len(b) :
                    b[i].name = names[k] => items[Rank(names, k)].suffix = b[i].suffix
               /\ (\A i \in 1..Len(b) : b[i].name # names[k])
                    => items[Rank(names, k)].suffix = <<>>
          /\ \A i \in 1..Len(b) : \E j \in 1..Len(items) : items[j] = b[i]

\* C4, amended: each named record carries the tail of the last record of that
\* name in the current sequence (empty if there is none); every name of the
\* current sequence is still there, and no record is lost if the names of the
\* current sequence are pairwise distinct.
C4_ReorderAmended ==
    Imported =>
      LET b == last.before
          names == ImportedNames
      IN  /\ ReorderedShape(b, names, items)
          /\ \A k \in FirstOccurrences(names) :
               /\ \A i \in 1..Len(b) :
                    (b[i].name = names[k] /\ \A j \in (i + 1)..Len(b) : b[j].name # names[k])
                      => items[Rank(names, k)].suffix = b[i].suffix
               /\ (\A i \in 1..Len(b) : b[i].name # names[k])
                    => items[Rank(names, k)].suffix = <<>>
          /\ \A i \in 1..Len(b) : \E j \in 1..Len(items) : items[j].name = b[i].name
          /\ Distinct(Names(b)) =>
               \A i \in 1..Len(b) : \E j \in 1..Len(items) : items[j] = b[i]

\* an import naming first a name the sequence does not have and then one it
\* has with a tail, while a third record is not named
C4_Witness ==
    /\ Imported
    /\ Len(last.names) = 2
    /\ Len(last.before) = 2
    /\ \A i \in 1..2 : last.before[i].name # ImportedNames[1]
    /\ last.before[1].name = ImportedNames[2]
    /\ last.before[1].suffix # <<>>
    /\ Len(items) = 3
    /\ items[1].suffix = <<>>
    /\ items[2] = last.before[1]
    /\ items[3] = last.before[2]

\* C5: the Add path appends exactly one record, with the given name and an
\* empty tail, if and only if the name is not empty and no record has it; in
\* every other case the sequence is unchanged.  (The name is what on_add calls
\* name: the text entered, stripped.)
C5_Insert ==
    (last.op = "add" /\ last.ok) =>
      LET b == last.before
          name == Strip(last.value)
      IN  IF name # <<>> /\ \A k \in 1..Len(b) : b[k].name # name
          THEN /\ Len(items) = Len(b) + 1
               /\ \A k \in 1..Len(b) : items[k] = b[k]
               /\ items[Len(items)].name = name
               /\ items[Len(items)].suffix = <<>>
          ELSE items = b

C5_Witness ==
    /\ last.op = "add"
    /\ last.ok
    /\ last.value = <<" ", "A", "\t">>
    /\ Len(last.before) = 2
    /\ Len(items) = 3
    /\ items[3] = FieldItem(<<"A">>, <<>>)

\* C6: a move changes nothing when the first record is moved up, the last one
\* down, or nothing is selected; otherwise it swaps the record with its
\* neighbour, tails included, and leaves every other position alone.
C6_Move ==
    last.op \in {"up", "down"} =>
      LET b == last.before
          i == last.idx
          j == IF last.op = "up" THEN i - 1 ELSE i + 1
      IN  IF \/ i < 0 \/ i >= Len(b)
             \/ (last.op = "up" /\ i = 0)
             \/ (last.op = "down" /\ i = Len(b) - 1)
          THEN items = b
          ELSE /\ Len(items) = Len(b)
               /\ items[i + 1] = b[j + 1]
               /\ items[j + 1] = b[i + 1]
               /\ \A k \in 1..Len(b) : (k # i + 1 /\ k # j + 1) => items[k] = b[k]

\* the first of three records moved down, its tail going with it
C6_Witness ==
    /\ last.op = "down"
    /\ last.idx = 0
    /\ Len(last.before) = 3
    /\ last.before[1].suffix # last.before[2].suffix
    /\ items[2] = last.before[1]
    /\ items[1] = last.before[2]
    /\ items[3] = last.before[3]
    /\ sel = 1

NonEmptyNames(its) == \A k \in 1..Len(its) : its[k].name # <<>>

\* C7: no edit of a sequence whose names are all non-empty leaves a record
\* with an empty name.
C7_NonEmptyNames ==
    (last.op \in EditOps /\ NonEmptyNames(last.before)) => NonEmptyNames(items)

\* C8: once the run is over, if the configuration was saved then the user was
\* prompted to restart KiCad.
C8_SavedThenPrompted ==
    (pc = "done" /\ writes > 0) => prompts > 0

\* C9: at most one successful write and at most one prompt in a session; once
\* on_apply has saved, write_back writes and prompts no more; a failed write in
\* on_apply leaves saved false and the dialog open.
C9_SavedOnce ==
    /\ writes <= 1
    /\ prompts <= 1
    /\ saved => (writes = 1 /\ prompts = 1)
    /\ (last.op = "apply" /\ ~last.ok) => (~saved /\ pc = "handled" /\ writes = 0)

\* write_back has run after on_apply saved
C9_Witness ==
    /\ pc = "done"
    /\ last.op = "write_back"
    /\ saved
    /\ writes = 1
    /\ prompts = 1
    /\ field_names = build_field_names_sexpr(items)

\* C10: an edit of a sequence whose names are pairwise distinct leaves them
\* pairwise distinct.
C10_UniqueNames ==
    (last.op \in EditOps /\ Distinct(Names(last.before))) => Distinct(Names(items))

\* an import that names a record twice and leaves another unnamed
C10_Witness ==
    /\ Imported
    /\ Distinct(Names(last.before))
    /\ Len(last.before) = 2
    /\ Len(last.names) = 2
    /\ ImportedNames[1] = ImportedNames[2]
    /\ ImportedNames[1] = last.before[2].name
    /\ Len(items) = 2
    /\ items[1] = last.before[2]
    /\ items[2] = last.before[1]

=============================================================================
